---------------------------- MODULE Spec2Model ----------------------------
(***************************************************************************)
(* A model of the Bun reverse proxy of src/src/index.ts: configuration    *)
(* loading and normalisation (loadConfig, readConfigCandidate,            *)
(* normalizeConfig, normalizeTls, validateTlsFiles), listener start-up    *)
(* (runProxy, startHttpProxy, startHttpRedirect, main) and the request    *)
(* handler (proxyFetch, pickTarget, isIpAllowed, buildProxiedUrl).        *)
(*                                                                         *)
(* JavaScript strings are sequences of chunks; a chunk is one character   *)
(* ("a", "A", " ", ":") or a word that is only ever used whole            *)
(* ("constructor", "http://u/").  No chunk is a concatenation of other    *)
(* chunks, so two sequences are equal exactly when the strings are.       *)
(* An optional value (T | undefined | null) is a sequence of at most one  *)
(* element: None is absent, Some(v) is present.                           *)
(***************************************************************************)
EXTENDS Integers, Sequences, FiniteSets, TLC

\* ------------------------------------------------------------------ bounds
\* longest raw route key, in chunks
MaxKeyLen == 2
\* longest Host header, in chunks
MaxHostLen == 3
\* most entries of a raw allowIps array
MaxAllowIps == 2
\* most requests one behaviour handles
MaxRequests == 2

\* ------------------------------------------------------- optional values
None == <<>>
Some(v) == <<v>>
IsSome(o) == Len(o) > 0
Get(o) == o[1]

\* ---------------------------------------------------------------- strings
\* every sequence over chars of length at most n
Strings(chars, n) == UNION {[1..k -> chars] : k \in 0..n}

\* String.prototype.trim, on the one whitespace chunk of the model
RECURSIVE TrimStart(_)
TrimStart(s) == IF s # <<>> /\ Head(s) = " " THEN TrimStart(Tail(s)) ELSE s

RECURSIVE TrimEnd(_)
TrimEnd(s) ==
    IF s # <<>> /\ s[Len(s)] = " " THEN TrimEnd(SubSeq(s, 1, Len(s) - 1)) ELSE s

Trim(s) == TrimEnd(TrimStart(s))

\* String.prototype.toLowerCase: "A" is the only chunk with an upper case letter
LowerChar(c) == IF c = "A" THEN "a" ELSE c

ToLowerCase(s) == [i \in 1..Len(s) |-> LowerChar(s[i])]

\* s.split(":")[0]: the part of s before its first ":" (all of s if it has none;
\* "".split(":") is [""], so the element always exists)
RECURSIVE SplitColonFirst(_)
SplitColonFirst(s) ==
    IF s = <<>> \/ Head(s) = ":" THEN <<>> ELSE <<Head(s)>> \o SplitColonFirst(Tail(s))

\* JavaScript truthiness of a string: Boolean(s)
Truthy(s) == s # <<>>


\* ------------------------------------------------------------------ paths
\* Bun.env.HOME ?? Bun.env.USERPROFILE of the process
Home == Some(<<"/", "home">>)

\* node:path isAbsolute: POSIX, a leading "/"
IsAbsolute(p) == p # <<>> /\ Head(p) = "/"

\* path.slice(1).replace(/^[\\\/]+/, ""): the leading separators dropped
RECURSIVE DropSeparators(_)
DropSeparators(p) == IF p # <<>> /\ Head(p) = "/" THEN DropSeparators(Tail(p)) ELSE p

\* node:path resolve(base, rel) for an absolute base: rel itself when absolute
PathResolve(base, rel) == IF IsAbsolute(rel) THEN rel ELSE base \o <<"/">> \o rel

expandHome(path) ==
    IF ~(path # <<>> /\ Head(path) = "~") THEN path
    ELSE IF ~IsSome(Home) \/ ~Truthy(Get(Home)) THEN path
    ELSE LET remainder == DropSeparators(Tail(path))
         IN  IF Truthy(remainder) THEN PathResolve(Get(Home), remainder) ELSE Get(Home)

\* None when the function throws ("Empty path encountered")
resolveWithBase(path, baseDir) ==
    LET trimmed == Trim(path)
    IN  IF ~Truthy(trimmed) THEN None
        ELSE LET expanded == expandHome(trimmed)
             IN  Some(IF IsAbsolute(expanded) THEN expanded
                      ELSE PathResolve(baseDir, expanded))

\* dirname(fileURLToPath(url)) of a config file: its parent directory
DirName(candidate) == <<"/", candidate, "/", "..">>

\* process.cwd(), the base directory of the built-in configuration
Cwd == <<"/", "cwd">>

\* ------------------------------------------------------ raw configuration
\* RawTlsConfig (lines 21-28).  caPath is the list the code makes of it at line
\* 181: absent is <<>>, one string is a list of one.
\* RawProxyConfig (lines 39-50).  routes is Object.entries(raw.routes ?? {}):
\* the <<key, value>> pairs in the order of the file.

HTTP_REDIRECT_DEFAULTS == [enabled |-> FALSE, port |-> 80, statusCode |-> 307]

CONFIG_DEFAULTS ==
    [http |-> [enabled |-> TRUE, host |-> <<"0.0.0.0">>, port |-> 80,
               redirect |-> HTTP_REDIRECT_DEFAULTS],
     routes |-> <<"localhost">> :> <<"http://127.0.0.1:3000">>,
     requireExplicitHost |-> FALSE,
     allowIps |-> <<>>]

\* a ?? b on optional values
Coalesce(o, default) == IF IsSome(o) THEN Get(o) ELSE default

\* Object.fromEntries: a later entry replaces an earlier one with the same key
RECURSIVE FromEntries(_)
FromEntries(entries) ==
    IF entries = <<>> THEN <<>>
    ELSE LET n    == Len(entries)
             init == FromEntries(SubSeq(entries, 1, n - 1))
             last == entries[n]
         IN  [k \in DOMAIN init \cup {last[1]} |->
                 IF k = last[1] THEN last[2] ELSE init[k]]

\* lines 115-120: the routes table of normalizeConfig
NormalizeRoutes(entries) ==
    LET routesEntries == [i \in 1..Len(entries) |->
                            <<ToLowerCase(Trim(entries[i][1])), Trim(entries[i][2])>>]
    IN  IF Len(routesEntries) > 0 THEN FromEntries(routesEntries)
        ELSE CONFIG_DEFAULTS.routes

\* line 140: (raw?.allowIps ?? []).map((item) => item.trim()).filter(Boolean)
NormalizeAllowIps(rawAllow) ==
    LET items == Coalesce(rawAllow, <<>>)
    IN  SelectSeq([i \in 1..Len(items) |-> Trim(items[i])], Truthy)

\* lines 170-171: raw.enabled ?? Boolean(certCandidate && keyCandidate)
WantsTlsOnlyWhenEnabled(r, certCandidate, keyCandidate) == Coalesce(r.enabled, FALSE)

WantsTls(r, certCandidate, keyCandidate) ==
    Coalesce(r.enabled, Truthy(certCandidate) /\ Truthy(keyCandidate))

\* lines 165-200.  [threw, tls]: threw when the function throws, else tls is
\* the TlsConfig or None (null).
normalizeTls(raw, baseDir) ==
    IF ~IsSome(raw) THEN [threw |-> FALSE, tls |-> None]
    ELSE
    LET r             == Get(raw)
        certCandidate == IF IsSome(r.certPath) THEN Trim(Get(r.certPath)) ELSE <<>>
        keyCandidate  == IF IsSome(r.keyPath) THEN Trim(Get(r.keyPath)) ELSE <<>>
        wantsTls      == WantsTls(r, certCandidate, keyCandidate)
        caTrimmed     == SelectSeq([i \in 1..Len(r.caPath) |-> Trim(r.caPath[i])], Truthy)
        caPaths       == [i \in 1..Len(caTrimmed) |-> Get(resolveWithBase(caTrimmed[i], baseDir))]
        passphrase    == IF IsSome(r.passphrase) THEN Trim(Get(r.passphrase)) ELSE <<>>
    IN  IF ~wantsTls THEN [threw |-> FALSE, tls |-> None]
        ELSE IF ~Truthy(certCandidate) \/ ~Truthy(keyCandidate)
        THEN [threw |-> TRUE, tls |-> None]
        ELSE [threw |-> FALSE,
              tls |-> Some([enabled |-> TRUE,
                            certPath |-> Get(resolveWithBase(certCandidate, baseDir)),
                            keyPath |-> Get(resolveWithBase(keyCandidate, baseDir)),
                            caPaths |-> caPaths,
                            passphrase |-> IF Len(passphrase) > 0 THEN Some(passphrase) ELSE None,
                            requestClientCert |-> Coalesce(r.requestClientCert, FALSE)])]

\* lines 111-144.  [threw, config]: normalizeConfig throws exactly when
\* normalizeTls does.
normalizeConfig(raw, baseDir) ==
    LET rawHttp     == Coalesce(raw.http, [enabled |-> None, host |-> None, port |-> None,
                                           redirect |-> None])
        rawRedirect == Coalesce(rawHttp.redirect,
                                [enabled |-> None, port |-> None, statusCode |-> None])
        redirect    == [enabled |-> Coalesce(rawRedirect.enabled, CONFIG_DEFAULTS.http.redirect.enabled),
                        port |-> Coalesce(rawRedirect.port, CONFIG_DEFAULTS.http.redirect.port),
                        statusCode |-> Coalesce(rawRedirect.statusCode,
                                                CONFIG_DEFAULTS.http.redirect.statusCode)]
        http        == [enabled |-> Coalesce(rawHttp.enabled, CONFIG_DEFAULTS.http.enabled),
                        host |-> Coalesce(rawHttp.host, CONFIG_DEFAULTS.http.host),
                        port |-> Coalesce(rawHttp.port, CONFIG_DEFAULTS.http.port),
                        redirect |-> redirect]
        t           == normalizeTls(raw.tls, baseDir)
    IN  [threw |-> t.threw,
         config |-> [http |-> http,
                     routes |-> NormalizeRoutes(raw.routes),
                     requireExplicitHost |-> Coalesce(raw.requireExplicitHost,
                                                      CONFIG_DEFAULTS.requireExplicitHost),
                     allowIps |-> NormalizeAllowIps(raw.allowIps),
                     tls |-> t.tls,
                     configDir |-> baseDir]]

\* the raw configuration of an empty JSON object, and normalizeConfig(null, cwd)
EmptyRaw ==
    [http |-> None, routes |-> <<>>, requireExplicitHost |-> None, allowIps |-> None,
     tls |-> None]

FALLBACK_CONFIG == normalizeConfig(EmptyRaw, Cwd).config


\* ------------------------------------------------------- loading the file
\* A file is [exists, json]: json is None when the content is not valid JSON,
\* else the raw configuration it parses to.
AbsentFile == [exists |-> FALSE, json |-> None]

VARIABLES
    configPath,   \* options.configPath of runProxy: None or a path
    env,          \* Bun.env: [PROXY_CONFIG, REVERSE_PROXY_CONFIG], each None or a path
    files,        \* the configuration files on disk, by candidate path
    disk,         \* the TLS files (certificates, keys, CA bundles) that exist
    consulted,    \* the candidates handed to readConfigCandidate, in order
    phase,        \* where runProxy is: "start", "loaded", "listening", "disabled", "failed"
    error,        \* what runProxy rejected with: None or the kind of the error
    config,       \* the ProxyConfig loadConfig returned: None before that
    listeners,    \* the listeners Bun.serve has bound
    handlers,     \* the invocations of proxyFetch, in order of arrival
    busy,         \* the ports Bun.serve cannot bind (in use, or privileged)
    redirects,    \* the requests the redirect listener answered, with the responses
    exitCode      \* None while the process runs, else the status of process.exit

vars == <<configPath, env, files, disk, consulted, phase, error, config, listeners, handlers,
          busy, redirects, exitCode>>

\* lines 202-215: TRUE when validateTlsFiles throws
validateTlsFilesThrows(cfg, onDisk) ==
    IF ~IsSome(cfg.tls) THEN FALSE
    ELSE LET tls        == Get(cfg.tls)
             candidates == <<tls.certPath, tls.keyPath>> \o tls.caPaths
         IN  \E i \in 1..Len(candidates) : candidates[i] \notin onDisk

\* lines 225-240.  [found, threw, config]: found is FALSE for null; threw is
\* None or the kind of the error thrown.
readConfigCandidate(candidate, fileSystem, onDisk) ==
    LET file == fileSystem[candidate]
    IN  IF ~file.exists THEN [found |-> FALSE, threw |-> None, config |-> None]
        ELSE IF ~IsSome(file.json)
        THEN [found |-> FALSE, threw |-> Some("json"), config |-> None]
        ELSE LET n == normalizeConfig(Get(file.json), DirName(candidate))
             IN  IF n.threw
                 THEN [found |-> FALSE, threw |-> Some("tls-paths"), config |-> None]
                 ELSE IF validateTlsFilesThrows(n.config, onDisk)
                 THEN [found |-> FALSE, threw |-> Some("tls-file"), config |-> None]
                 ELSE [found |-> TRUE, threw |-> None, config |-> Some(n.config)]

\* lines 262-266: the search list
SearchList == <<"proxy.config.json", "proxy.config.example.json", "../proxy.config.json">>

\* a path given as a string is used when it is truthy
PathGiven(o) == IsSome(o) /\ Get(o) # ""

\* lines 268-284: the search loop from candidate i on, then the fallback
RECURSIVE SearchFrom(_, _, _, _)
SearchFrom(i, fileSystem, onDisk, seen) ==
    IF i > Len(SearchList)
    THEN [consulted |-> seen, threw |-> None, config |-> Some(FALLBACK_CONFIG)]
    ELSE LET found == readConfigCandidate(SearchList[i], fileSystem, onDisk)
             now   == Append(seen, SearchList[i])
         IN  IF IsSome(found.threw)
             THEN [consulted |-> now, threw |-> found.threw, config |-> None]
             ELSE IF found.found
             THEN [consulted |-> now, threw |-> None, config |-> found.config]
             ELSE SearchFrom(i + 1, fileSystem, onDisk, now)

\* lines 252-285: loadConfig without an explicit path
LoadFromEnvOrSearchFallsThrough(environment, fileSystem, onDisk) ==
    LET envPath == IF IsSome(environment.PROXY_CONFIG) THEN environment.PROXY_CONFIG
                   ELSE environment.REVERSE_PROXY_CONFIG
    IN  IF PathGiven(envPath)
        THEN LET fromEnv == readConfigCandidate(Get(envPath), fileSystem, onDisk)
             IN  IF IsSome(fromEnv.threw)
                 THEN [consulted |-> <<Get(envPath)>>, threw |-> fromEnv.threw, config |-> None]
                 ELSE IF fromEnv.found
                 THEN [consulted |-> <<Get(envPath)>>, threw |-> None, config |-> fromEnv.config]
                 ELSE SearchFrom(1, fileSystem, onDisk, <<Get(envPath)>>)
        ELSE SearchFrom(1, fileSystem, onDisk, <<>>)

LoadFromEnvOrSearch(environment, fileSystem, onDisk) ==
    LET envPath == IF IsSome(environment.PROXY_CONFIG) THEN environment.PROXY_CONFIG
                   ELSE environment.REVERSE_PROXY_CONFIG
    IN  IF PathGiven(envPath)
        THEN LET fromEnv == readConfigCandidate(Get(envPath), fileSystem, onDisk)
             IN  IF IsSome(fromEnv.threw)
                 THEN [consulted |-> <<Get(envPath)>>, threw |-> fromEnv.threw, config |-> None]
                 ELSE IF fromEnv.found
                 THEN [consulted |-> <<Get(envPath)>>, threw |-> None, config |-> fromEnv.config]
                 ELSE [consulted |-> <<Get(envPath)>>, threw |-> Some("env-missing"),
                       config |-> None]
        ELSE SearchFrom(1, fileSystem, onDisk, <<>>)

\* lines 242-285.  [consulted, threw, config]
loadConfigExplicitFallsThrough(path, environment, fileSystem, onDisk) ==
    IF PathGiven(path)
    THEN LET explicit == readConfigCandidate(Get(path), fileSystem, onDisk)
         IN  IF IsSome(explicit.threw)
             THEN [consulted |-> <<Get(path)>>, threw |-> explicit.threw, config |-> None]
             ELSE IF explicit.found
             THEN [consulted |-> <<Get(path)>>, threw |-> None, config |-> explicit.config]
             ELSE LET later == LoadFromEnvOrSearch(environment, fileSystem, onDisk)
                  IN  [later EXCEPT !.consulted = <<Get(path)>> \o @]
    ELSE LoadFromEnvOrSearch(environment, fileSystem, onDisk)

loadConfig(path, environment, fileSystem, onDisk) ==
    IF PathGiven(path)
    THEN LET explicit == readConfigCandidate(Get(path), fileSystem, onDisk)
         IN  IF IsSome(explicit.threw)
             THEN [consulted |-> <<Get(path)>>, threw |-> explicit.threw, config |-> None]
             ELSE IF explicit.found
             THEN [consulted |-> <<Get(path)>>, threw |-> None, config |-> explicit.config]
             ELSE [consulted |-> <<Get(path)>>, threw |-> Some("not-found"), config |-> None]
    ELSE LoadFromEnvOrSearch(environment, fileSystem, onDisk)

\* ------------------------------------------------------ the request handler
\* Object.prototype, which the routes object inherits from: of its members only
\* "constructor" has a name that survives toLowerCase and is in the alphabet
\* ("__proto__" is the other).  The member is the function Object; the model
\* holds it as the string new URL() makes of it.
ObjectPrototype == <<"constructor">> :> <<"function Object() { [native code] }">>

\* config.routes[host]: an own property, else an inherited one, else undefined
PropertyGet(routes, host) ==
    IF host \in DOMAIN routes THEN Some(routes[host])
    ELSE IF host \in DOMAIN ObjectPrototype THEN Some(ObjectPrototype[host])
    ELSE None

\* lines 287-292.  [threw, host, target]: threw with UnknownHostError(host), or
\* returned target
pickTarget(cfg, hostHeader) ==
    LET host   == ToLowerCase(SplitColonFirst(Coalesce(hostHeader, <<>>)))
        mapped == PropertyGet(cfg.routes, host)
    IN  IF IsSome(mapped) /\ Truthy(Get(mapped))
        THEN [threw |-> FALSE, host |-> host, target |-> Get(mapped)]
        ELSE [threw |-> TRUE, host |-> host, target |-> <<>>]

\* lines 294-297
isIpAllowedFailOpen(cfg, ip) ==
    IF Len(cfg.allowIps) = 0 THEN TRUE
    ELSE IF IsSome(ip) /\ Truthy(Get(ip))
    THEN \E i \in 1..Len(cfg.allowIps) : cfg.allowIps[i] = Get(ip)
    ELSE TRUE

isIpAllowed(cfg, ip) ==
    IF Len(cfg.allowIps) = 0 THEN TRUE
    ELSE IF IsSome(ip) /\ Truthy(Get(ip))
    THEN \E i \in 1..Len(cfg.allowIps) : cfg.allowIps[i] = Get(ip)
    ELSE FALSE

\* The WHATWG URL parser on the strings of the model, without a base URL.
\* Leading and trailing spaces are stripped.  A string parses when it starts
\* with a scheme: letters and then ":" (an opaque path follows and anything is
\* accepted), or letters and then a chunk that starts with "http:".  After
\* "http://u/" or "http://v/" the rest is a path; after "http://127.0.0.1:3000" it would be
\* part of the port, which only digits may be.
Letters == {"a", "A", "constructor", "localhost"}

HttpChunks == {"http://u/", "http://v/", "http://127.0.0.1:3000"}

RECURSIVE SchemeEnd(_, _)
SchemeEnd(t, i) ==
    IF i > Len(t) THEN 0
    ELSE IF t[i] \in Letters THEN SchemeEnd(t, i + 1)
    ELSE IF t[i] = ":" THEN (IF i > 1 THEN i ELSE 0)
    ELSE IF t[i] \in HttpChunks THEN i
    ELSE 0

ParsesAsUrl(s) ==
    LET t == Trim(s)
        e == SchemeEnd(t, 1)
    IN  /\ e > 0
        /\ t[e] = "http://127.0.0.1:3000" => e = Len(t)

\* the URL is one fetch can connect to: its scheme is http
IsHttpUrl(s) == ParsesAsUrl(s) /\ Trim(s)[1] \in HttpChunks

\* lines 299-304.  None when new URL(targetBase) throws, else the outbound URL:
\* the base with the path and the query of the request
buildProxiedUrl(targetBase, reqUrl) ==
    IF ~ParsesAsUrl(targetBase) THEN None
    ELSE Some([base |-> Trim(targetBase), pathname |-> reqUrl.pathname,
               search |-> reqUrl.search])

\* the responses the proxy makes itself
Forbidden  == [from |-> "proxy", status |-> 403]
NotFound   == [from |-> "proxy", status |-> 404]
BadGateway == [from |-> "proxy", status |-> 502]

\* line 331: new URL(req.url).  Bun makes req.url of the scheme of the server
\* that accepted the request (https when it was started with tls: lines 369-386)
\* and of the request target.
IncomingUrl(cfg, req) ==
    [protocol |-> IF IsSome(cfg.tls) THEN <<"https", ":">> ELSE <<"http", ":">>,
     pathname |-> req.url.pathname,
     search |-> req.url.search]

\* s.replace(":", ""): the first ":" of s removed
RECURSIVE ReplaceFirstColon(_)
ReplaceFirstColon(s) ==
    IF s = <<>> THEN <<>>
    ELSE IF Head(s) = ":" THEN Tail(s)
    ELSE <<Head(s)>> \o ReplaceFirstColon(Tail(s))

\* parts.join(", ")
RECURSIVE JoinComma(_)
JoinComma(parts) ==
    IF parts = <<>> THEN <<>>
    ELSE IF Len(parts) = 1 THEN parts[1]
    ELSE parts[1] \o <<", ">> \o JoinComma(Tail(parts))

\* Headers of the model: the four headers the handler touches, each None
\* (absent) or its value.  A request holds them as req.host and req.forwarded.
InboundHeaders(req) ==
    [host |-> req.host, xForwardedFor |-> req.forwarded.for,
     xForwardedHost |-> req.forwarded.host, xForwardedProto |-> req.forwarded.proto]

\* lines 334-341: the headers of the outbound request
ForwardedHeadersKeepClientValues(req, clientIP, incomingUrl) ==
    LET copied == [InboundHeaders(req) EXCEPT !.host = None]
        parts  == SelectSeq(<<Coalesce(copied.xForwardedFor, <<>>), Coalesce(clientIP, <<>>)>>,
                            Truthy)
    IN  [copied EXCEPT
            !.xForwardedFor = Some(JoinComma(parts)),
            !.xForwardedHost = IF IsSome(@) THEN @ ELSE Some(Coalesce(req.host, <<>>)),
            !.xForwardedProto = IF IsSome(@) THEN @
                                ELSE Some(ReplaceFirstColon(incomingUrl.protocol))]

ForwardedHeaders(req, clientIP, incomingUrl) ==
    LET copied == [InboundHeaders(req) EXCEPT !.host = None]
        parts  == SelectSeq(<<Coalesce(copied.xForwardedFor, <<>>), Coalesce(clientIP, <<>>)>>,
                            Truthy)
    IN  [copied EXCEPT
            !.xForwardedFor = Some(JoinComma(parts)),
            !.xForwardedHost = Some(Coalesce(req.host, <<>>)),
            !.xForwardedProto = Some(ReplaceFirstColon(incomingUrl.protocol))]

\* lines 349-351: init.body, None when the outbound request has no body
OutboundBodyOfAnyMethod(method, body) == body

OutboundBody(method, body) == IF method \notin {"GET", "HEAD"} THEN body ELSE None

\* lines 343-351: the RequestInit handed to fetch
RequestInit(req, clientIP, incomingUrl) ==
    [method |-> req.method,
     headers |-> ForwardedHeaders(req, clientIP, incomingUrl),
     redirect |-> "manual",
     body |-> OutboundBody(req.method, req.body)]

\* lines 318-326: the response to a request whose host pickTarget does not
\* know.  requireExplicitHost chooses between console.error and console.warn.
UnknownHostResponseByFlag(cfg) == IF cfg.requireExplicitHost THEN NotFound ELSE BadGateway

UnknownHostResponse(cfg) == IF cfg.requireExplicitHost THEN NotFound ELSE NotFound

\* lines 306-352: proxyFetch up to the await of fetch.  st is "responded" (the
\* handler returned a response), "threw" (an exception left proxyFetch) or
\* "awaiting" (the outbound call is issued and awaited); fetch is the state of
\* the promise of the outbound call: "none", "pending", "resolved", "rejected".
ProxyFetchStartResolveFirst(cfg, req) ==
    LET clientIP == req.clientIP
        picked   == pickTarget(cfg, req.host)
        h        == [req |-> req, clientIP |-> clientIP, host |-> picked.host,
                     target |-> None, outbound |-> None, init |-> None, fetch |-> "none",
                     response |-> None, st |-> "responded", inbound |-> "open"]
    IN  IF picked.threw THEN [h EXCEPT !.response = Some(NotFound)]
        ELSE IF ~isIpAllowed(cfg, clientIP) THEN [h EXCEPT !.response = Some(Forbidden)]
        ELSE LET targetUrl == buildProxiedUrl(picked.target, req.url)
             IN  IF ~IsSome(targetUrl)
                 THEN [h EXCEPT !.target = Some(picked.target), !.st = "threw"]
                 ELSE [h EXCEPT !.target = Some(picked.target), !.outbound = targetUrl,
                                !.init = Some(RequestInit(req, clientIP, IncomingUrl(cfg, req))),
                                !.fetch = "pending", !.st = "awaiting"]

ProxyFetchStart(cfg, req) ==
    LET clientIP == req.clientIP
        h        == [req |-> req, clientIP |-> clientIP, host |-> <<>>,
                     target |-> None, outbound |-> None, init |-> None, fetch |-> "none",
                     response |-> None, st |-> "responded", inbound |-> "open"]
    IN  IF ~isIpAllowed(cfg, clientIP) THEN [h EXCEPT !.response = Some(Forbidden)]
        ELSE LET picked == pickTarget(cfg, req.host)
             IN  IF picked.threw
                 THEN [h EXCEPT !.host = picked.host,
                                !.response = Some(UnknownHostResponse(cfg))]
                 ELSE LET incomingUrl == IncomingUrl(cfg, req)
                          targetUrl   == buildProxiedUrl(picked.target, incomingUrl)
                      IN  IF ~IsSome(targetUrl)
                          THEN [h EXCEPT !.host = picked.host,
                                         !.target = Some(picked.target),
                                         !.st = "threw"]
                          ELSE [h EXCEPT !.host = picked.host,
                                         !.target = Some(picked.target),
                                         !.outbound = targetUrl,
                                         !.init = Some(RequestInit(req, clientIP, incomingUrl)),
                                         !.fetch = "pending",
                                         !.st = "awaiting"]

\* lines 353-363: what proxyFetch returns when fetch settles.  answer is None
\* when fetch rejected, else the status of the upstream's response.
ProxyFetchSettleRethrow(h, answer) ==
    IF IsSome(answer)
    THEN [h EXCEPT !.fetch = "resolved", !.st = "responded",
                   !.response = Some([from |-> "upstream", status |-> Get(answer)])]
    ELSE [h EXCEPT !.fetch = "rejected", !.st = "threw"]

ProxyFetchSettle(h, answer) ==
    IF IsSome(answer)
    THEN [h EXCEPT !.fetch = "resolved", !.st = "responded",
                   !.response = Some([from |-> "upstream", status |-> Get(answer)])]
    ELSE [h EXCEPT !.fetch = "rejected", !.st = "responded", !.response = Some(BadGateway)]

\* ---------------------------------------------------------------- actions
\* line 447: runProxy awaits loadConfig
LoadConfigFallsBackOnError ==
    /\ phase = "start"
    /\ LET r == loadConfig(configPath, env, files, disk)
       IN  /\ consulted' = r.consulted
           /\ config' = IF IsSome(r.threw) THEN Some(FALLBACK_CONFIG) ELSE r.config
           /\ error' = None
           /\ phase' = "loaded"
    /\ UNCHANGED <<configPath, env, files, disk, listeners, handlers, busy, redirects, exitCode>>

LoadConfig ==
    /\ phase = "start"
    /\ LET r == loadConfig(configPath, env, files, disk)
       IN  /\ consulted' = r.consulted
           /\ config' = r.config
           /\ error' = r.threw
           /\ phase' = IF IsSome(r.threw) THEN "failed" ELSE "loaded"
    /\ UNCHANGED <<configPath, env, files, disk, listeners, handlers, busy, redirects, exitCode>>

\* lines 366-398: the listener startHttpProxy binds
PrimaryListener(cfg) ==
    [kind |-> "primary", host |-> cfg.http.host, port |-> cfg.http.port,
     scheme |-> IF IsSome(cfg.tls) THEN "https" ELSE "http"]

\* lines 400-444: the listener startHttpRedirect binds, when it binds one
RedirectWantedWhateverThePort(cfg) ==
    /\ cfg.http.redirect.enabled
    /\ IsSome(cfg.tls)

RedirectWanted(cfg) ==
    /\ cfg.http.redirect.enabled
    /\ IsSome(cfg.tls)
    /\ cfg.http.redirect.port # cfg.http.port

RedirectListener(cfg) ==
    [kind |-> "redirect", host |-> cfg.http.host, port |-> cfg.http.redirect.port,
     scheme |-> "http"]

\* lines 448-454: the rest of runProxy, which runs without an await.  Bun.serve
\* throws when the port cannot be bound.
StartListenersDegraded ==
    /\ phase = "loaded"
    /\ LET cfg           == Get(config)
           primaryBinds  == cfg.http.port \notin busy
           redirectBinds == cfg.http.redirect.port \notin busy
       IN  IF ~cfg.http.enabled
             THEN /\ phase' = "disabled"
                  /\ UNCHANGED <<error, listeners>>
             ELSE IF ~primaryBinds
             THEN /\ phase' = "failed"
                  /\ error' = Some("bind-primary")
                  /\ UNCHANGED listeners
             ELSE /\ phase' = "listening"
                  /\ listeners' = listeners \cup {PrimaryListener(cfg)}
                        \cup (IF RedirectWanted(cfg) /\ redirectBinds
                              THEN {RedirectListener(cfg)} ELSE {})
                  /\ UNCHANGED error
    /\ UNCHANGED <<configPath, env, files, disk, consulted, config, handlers, busy, redirects,
                   exitCode>>

StartListeners ==
    /\ phase = "loaded"
    /\ LET cfg           == Get(config)
           primaryBinds  == cfg.http.port \notin busy
           redirectBinds == cfg.http.redirect.port \notin busy
       IN  IF ~cfg.http.enabled
             THEN /\ phase' = "disabled"
                  /\ UNCHANGED <<error, listeners>>
             ELSE IF ~primaryBinds
             THEN /\ phase' = "failed"
                  /\ error' = Some("bind-primary")
                  /\ UNCHANGED listeners
             ELSE IF RedirectWanted(cfg) /\ ~redirectBinds
             THEN /\ phase' = "failed"
                  /\ error' = Some("bind-redirect")
                  /\ listeners' = listeners \cup {PrimaryListener(cfg)}
             ELSE /\ phase' = "listening"
                  /\ listeners' = listeners \cup {PrimaryListener(cfg)}
                        \cup (IF RedirectWanted(cfg) THEN {RedirectListener(cfg)} ELSE {})
                  /\ UNCHANGED error
    /\ UNCHANGED <<configPath, env, files, disk, consulted, config, handlers, busy, redirects,
                   exitCode>>

\* line 385: the primary listener hands a request to proxyFetch, which runs to
\* its first await or to its return.  limit bounds the requests of a behaviour.
ProxyFetchOneAtATime(req, limit) ==
    /\ phase = "listening"
    /\ Len(handlers) < limit
    /\ LET h == ProxyFetchStart(Get(config), req)
       IN  handlers' = Append(handlers,
                              IF \E i \in 1..Len(handlers) : handlers[i].st = "awaiting"
                              THEN [h EXCEPT !.outbound = None, !.init = None, !.fetch = "none",
                                             !.st = "responded", !.response = Some(BadGateway)]
                              ELSE h)
    /\ UNCHANGED <<configPath, env, files, disk, consulted, phase, error, config, listeners,
                   busy, redirects, exitCode>>

ProxyFetch(req, limit) ==
    /\ phase = "listening"
    /\ Len(handlers) < limit
    /\ handlers' = Append(handlers, ProxyFetchStart(Get(config), req))
    /\ UNCHANGED <<configPath, env, files, disk, consulted, phase, error, config, listeners,
                   busy, redirects, exitCode>>

\* the statuses an upstream answers with
UpstreamStatuses == {200, 502}

\* line 354: the awaited fetch settles: it rejects, or (an http URL only) it
\* resolves with the upstream's response
FetchSettles ==
    \E i \in 1..Len(handlers) :
      /\ handlers[i].st = "awaiting"
      /\ \E answer \in {None} \cup
                       (IF IsHttpUrl(Get(handlers[i].outbound).base)
                        THEN {Some(n) : n \in UpstreamStatuses} ELSE {}) :
           handlers' = [handlers EXCEPT ![i] = ProxyFetchSettle(handlers[i], answer)]
      /\ UNCHANGED <<configPath, env, files, disk, consulted, phase, error, config, listeners,
                   busy, redirects, exitCode>>

\* lines 420-431: the response of the redirect listener.  The template literal
\* writes the port in decimal.
RedirectResponseAlwaysWithPort(cfg, req) ==
    LET incoming     == req.url
        tlsPort      == cfg.http.port
        locationHost == incoming.hostname \o <<":", ToString(tlsPort)>>
        location     == <<"https://">> \o locationHost \o incoming.pathname \o incoming.search
    IN  [status |-> cfg.http.redirect.statusCode, body |-> None,
         headers |-> [location |-> location]]

RedirectResponse(cfg, req) ==
    LET incoming     == req.url
        tlsPort      == cfg.http.port
        locationHost == IF tlsPort = 443 THEN incoming.hostname
                        ELSE incoming.hostname \o <<":", ToString(tlsPort)>>
        location     == <<"https://">> \o locationHost \o incoming.pathname \o incoming.search
    IN  [status |-> cfg.http.redirect.statusCode, body |-> None,
         headers |-> [location |-> location]]

\* line 420: the redirect listener answers a request
RedirectFetch(req) ==
    /\ phase = "listening"
    /\ RedirectListener(Get(config)) \in listeners
    /\ Len(redirects) < MaxRequests
    /\ redirects' = Append(redirects, [req |-> req, response |-> RedirectResponse(Get(config), req)])
    /\ UNCHANGED <<configPath, env, files, disk, consulted, phase, error, config, listeners,
                   handlers, busy, exitCode>>

\* the client of a request closes its connection while proxyFetch awaits the
\* outbound call: req.signal aborts.  proxyFetch hands no signal to fetch (lines
\* 343-347), so nothing else changes.
ClientCloses ==
    \E i \in 1..Len(handlers) :
      /\ handlers[i].st = "awaiting"
      /\ handlers[i].inbound = "open"
      /\ handlers' = [handlers EXCEPT ![i].inbound = "closed"]
      /\ UNCHANGED <<configPath, env, files, disk, consulted, phase, error, config, listeners,
                     busy, redirects, exitCode>>

\* lines 662-667: runProxy rejected; main catches, and process.exit(1) ends the
\* process, which closes its sockets
MainCatch ==
    /\ phase = "failed"
    /\ exitCode = None
    /\ exitCode' = Some(1)
    /\ listeners' = {}
    /\ UNCHANGED <<configPath, env, files, disk, consulted, phase, error, config, handlers,
                   busy, redirects>>


\* ------------------------------------------------------ initial states
Candidates == {"cli.json", "env.json", "env2.json"} \cup {SearchList[i] : i \in 1..Len(SearchList)}

JsonFile(raw) == [exists |-> TRUE, json |-> Some(raw)]

MalformedFile == [exists |-> TRUE, json |-> None]

OnlyFile(candidate, file) == [c \in Candidates |-> IF c = candidate THEN file ELSE AbsentFile]

NoEnv == [PROXY_CONFIG |-> None, REVERSE_PROXY_CONFIG |-> None]

\* the state in which runProxy is called
StartOn(path, environment, fileSystem, onDisk, inUse) ==
    /\ configPath = path
    /\ env = environment
    /\ files = fileSystem
    /\ disk = onDisk
    /\ consulted = <<>>
    /\ phase = "start"
    /\ error = None
    /\ config = None
    /\ listeners = {}
    /\ handlers = <<>>
    /\ busy = inUse
    /\ redirects = <<>>
    /\ exitCode = None

\* the same, with every port free
Start(path, environment, fileSystem, onDisk) == StartOn(path, environment, fileSystem, onDisk, {})

\* TLS material, as the configuration names it and as it resolves from cli.json
RawTlsOn ==
    [enabled |-> Some(TRUE), certPath |-> Some(<<"cert.pem">>), keyPath |-> Some(<<"key.pem">>),
     caPath |-> <<>>, passphrase |-> None, requestClientCert |-> None]

CliTlsFiles == {DirName("cli.json") \o <<"/", "cert.pem">>, DirName("cli.json") \o <<"/", "key.pem">>,
                DirName("cli.json") \o <<"/", "ca.pem">>, <<"/", "key.pem">>}

RawHttp(enabled, port, redirect) ==
    [enabled |-> enabled, host |-> None, port |-> port, redirect |-> redirect]

RawRedirect(port) == [enabled |-> Some(TRUE), port |-> port, statusCode |-> None]

U == <<"http://u/">>
V == <<"http://v/">>

\* configurations of the kind the README shows, and their edge cases
SampleRoutes ==
    {<<>>,
     << <<<<"a">>, U>> >>,
     << <<<<" ", "A">>, <<" ", "http://u/", " ">>>>, <<<<"A", "a">>, V>> >>,
     << <<<<"a">>, <<"a">>>> >>}

SampleAllowIps == {None, Some(<< <<"1">> >>)}

SampleTls == {None, Some(RawTlsOn)}

SampleHttp ==
    {None,
     Some(RawHttp(Some(FALSE), None, None)),
     Some(RawHttp(None, Some(443), Some(RawRedirect(None)))),
     Some(RawHttp(None, Some(80), Some(RawRedirect(Some(80)))))}

SampleRaws ==
    {[http |-> h, routes |-> r, requireExplicitHost |-> None, allowIps |-> a, tls |-> t] :
        h \in SampleHttp, r \in SampleRoutes, a \in SampleAllowIps, t \in SampleTls}

SampleFiles == {AbsentFile, MalformedFile} \cup {JsonFile(r) : r \in SampleRaws}

\* the ports another process holds
SampleBusy == {{}, {80}}

Init ==
    \E path \in {None, Some("cli.json")}, file \in SampleFiles, onDisk \in {{}, CliTlsFiles},
       inUse \in SampleBusy :
        StartOn(path, NoEnv, OnlyFile("cli.json", file), onDisk, inUse)

RootUrl == [pathname |-> <<"/">>, search |-> <<>>]

\* no X-Forwarded-* header
NoForwarded == [host |-> None, for |-> None, proto |-> None]

\* a GET of the root, without a body and without X-Forwarded-* headers
PlainRequest(ip, h) ==
    [host |-> h, url |-> RootUrl, forwarded |-> NoForwarded, clientIP |-> ip,
     method |-> "GET", body |-> None]

SampleRequests ==
    {PlainRequest(ip, h) :
        ip \in {None, Some(<<"1">>), Some(<<"F">>)},
        h \in {None, Some(<<"a">>), Some(<<"A", ":", "a">>), Some(<<"constructor">>)}}

Next ==
    \/ LoadConfig
    \/ StartListeners
    \/ MainCatch
    \/ \E req \in SampleRequests : ProxyFetch(req, MaxRequests)
    \/ FetchSettles

Spec == Init /\ [][Next]_vars


\* ------------------------------------------- routing: inputs drawn widely
KeyChars == {"a", "A", " ", ":", "constructor"}

RawTargets == {<<>>, <<" ">>, U, <<" ", "http://u/", " ">>, <<"a">>}

RawRouteTables ==
    {<<>>} \cup {<< <<k, v>> >> : k \in Strings(KeyChars, MaxKeyLen), v \in RawTargets}

HostHeaders == {None} \cup {Some(h) : h \in Strings(KeyChars, MaxHostLen)}

InitRouting ==
    \E routes \in RawRouteTables :
        Start(Some("cli.json"), NoEnv,
              OnlyFile("cli.json", JsonFile([EmptyRaw EXCEPT !.routes = routes])), {})

NextRouting ==
    \/ LoadConfig
    \/ StartListeners
    \/ \E h \in HostHeaders : ProxyFetch(PlainRequest(Some(<<"1">>), h), 1)
    \/ FetchSettles

SpecRouting == InitRouting /\ [][NextRouting]_vars

\* the hostname part of a Host header: what precedes its first ":"
HostnamePart(header) == SplitColonFirst(header)

\* header is k followed by ":" and a port
IsWithPort(header, k) ==
    /\ Len(header) > Len(k)
    /\ SubSeq(header, 1, Len(k)) = k
    /\ header[Len(k) + 1] = ":"
    /\ \A j \in (Len(k) + 2)..Len(header) : header[j] # ":"

\* C1: for every key k of the routes table of a loaded configuration, a request
\* whose Host header is k, or k followed by ":<port>", resolves to routes[k]; a
\* request whose hostname (compared without case) is no key of the table fails
\* with UnknownHostError carrying that hostname, and is answered 404.
C1_PickTargetResolvesKeysOnly ==
    \A i \in 1..Len(handlers) :
        LET h      == handlers[i]
            routes == Get(config).routes
            header == Coalesce(h.req.host, <<>>)
            name   == ToLowerCase(HostnamePart(header))
        IN  /\ \A k \in DOMAIN routes :
                 (header = k \/ IsWithPort(header, k)) => h.target = Some(routes[k])
            /\ name \notin DOMAIN routes =>
                 /\ h.target = None
                 /\ h.host = name
                 /\ h.response = Some(NotFound)

\* C2: every key of the routes table of a loaded configuration is non-empty,
\* trimmed and lower case, and a request with an absent or empty Host header is
\* answered 404.
C2_KeysNonEmptySoEmptyHostIs404 ==
    /\ IsSome(config) =>
         \A k \in DOMAIN Get(config).routes : k # <<>> /\ Trim(k) = k /\ ToLowerCase(k) = k
    /\ \A i \in 1..Len(handlers) :
         Coalesce(handlers[i].req.host, <<>>) = <<>> =>
            handlers[i].response = Some(NotFound)


\* ------------------------------------------------ the handler's outcomes
\* C3: every request proxyFetch handles ends in a 403, a 404 or a 502 of the
\* proxy or in the relayed response of the upstream, and no exception leaves
\* proxyFetch.
C3_EveryRequestEndsInAResponse ==
    \A i \in 1..Len(handlers) :
        LET h == handlers[i]
        IN  /\ h.st # "threw"
            /\ h.st = "responded" =>
                 /\ IsSome(h.response)
                 /\ \/ Get(h.response).from = "upstream"
                    \/ Get(h.response) \in {Forbidden, NotFound, BadGateway}

\* the access filter rejects the client of handler h: the allowlist of the
\* loaded configuration is not empty and does not hold the client's address
ClientRejected(h) ==
    LET allow == Get(config).allowIps
    IN  /\ allow # <<>>
        /\ \A j \in 1..Len(allow) : ~(IsSome(h.clientIP) /\ allow[j] = Get(h.clientIP))

\* the Host header of handler h names no route of the loaded configuration
HostUnrouted(h) ==
    ToLowerCase(HostnamePart(Coalesce(h.req.host, <<>>))) \notin DOMAIN Get(config).routes

\* C4: a request whose client the access filter rejects is answered 403, also
\* when its Host header matches no route, and in no state is an outbound call
\* issued for it.
C4_RejectedClientGets403AndNoUpstreamCall ==
    \A i \in 1..Len(handlers) :
        ClientRejected(handlers[i]) =>
            /\ handlers[i].st = "responded"
            /\ handlers[i].response = Some(Forbidden)
            /\ handlers[i].outbound = None
            /\ handlers[i].fetch = "none"

C4_Witness ==
    \E i \in 1..Len(handlers) :
        /\ ClientRejected(handlers[i])
        /\ HostUnrouted(handlers[i])
        /\ handlers[i].response = Some(Forbidden)

\* C6: in a step in which the outbound call of a request fails, the request is
\* answered 502, and nothing else changes: not the configuration, not the
\* listeners, not another request.
C6_UpstreamFailureIs502AndLeavesNoTrace ==
    [][\A i \in 1..Len(handlers) :
          (handlers[i].fetch = "pending" /\ handlers'[i].fetch = "rejected") =>
              /\ handlers'[i].st = "responded"
              /\ handlers'[i].response = Some(BadGateway)
              /\ handlers'[i].req = handlers[i].req
              /\ Len(handlers') = Len(handlers)
              /\ \A j \in 1..Len(handlers) : j # i => handlers'[j] = handlers[j]
              /\ config' = config
              /\ listeners' = listeners
              /\ phase' = phase]_vars

\* a request whose outbound call failed got 502, and a request after it got
\* the upstream's answer
C6_Witness ==
    \E i, j \in 1..Len(handlers) :
        /\ i < j
        /\ handlers[i].fetch = "rejected"
        /\ handlers[i].response = Some(BadGateway)
        /\ handlers[j].fetch = "resolved"
        /\ handlers[j].response = Some([from |-> "upstream", status |-> 200])


\* ------------------------------------- the access filter: inputs drawn widely
RawIpItems == {<<>>, <<" ">>, <<"1">>, <<" ", "1", " ">>, <<"F">>, <<"1", "F">>}

RawAllowLists == {None} \cup {Some(l) : l \in Strings(RawIpItems, MaxAllowIps)}

ClientIPs ==
    {None, Some(<<>>), Some(<<"1">>), Some(<<"F">>), Some(<<"f">>), Some(<<"1", "F">>),
     Some(<<" ", "1", " ">>)}

InitAccess ==
    \E allow \in RawAllowLists :
        Start(Some("cli.json"), NoEnv,
              OnlyFile("cli.json", JsonFile([EmptyRaw EXCEPT !.allowIps = allow])), {})

NextAccess ==
    \/ LoadConfig
    \/ StartListeners
    \/ \E ip \in ClientIPs :
         ProxyFetch(PlainRequest(ip, Some(<<"localhost">>)), MaxRequests)
    \/ FetchSettles

SpecAccess == InitAccess /\ [][NextAccess]_vars

\* C5: the access filter lets a request pass (it is not answered 403) exactly
\* when the allowlist is empty, or the client IP is defined and is, as an exact
\* string, an entry of the allowlist.
C5_AllowedIffListEmptyOrExactEntry ==
    \A i \in 1..Len(handlers) :
        LET h     == handlers[i]
            allow == Get(config).allowIps
        IN  (h.response # Some(Forbidden)) <=>
                \/ allow = <<>>
                \/ IsSome(h.clientIP) /\ \E j \in 1..Len(allow) : allow[j] = Get(h.clientIP)

\* with an allowlist, a request without a client IP was rejected and a request
\* with a listed client IP passed the filter
C5_Witness ==
    /\ Len(handlers) = 2
    /\ Get(config).allowIps # <<>>
    /\ handlers[1].clientIP = None
    /\ handlers[1].response = Some(Forbidden)
    /\ IsSome(handlers[2].clientIP)
    /\ handlers[2].fetch # "none"


\* --------------------------------- the sources of loadConfig: drawn widely
FileStates == {AbsentFile, MalformedFile, JsonFile(EmptyRaw)}

InitLoad ==
    \E path \in {None, Some(""), Some("cli.json")},
       proxyConfig \in {None, Some(""), Some("env.json")},
       reverseProxyConfig \in {None, Some(""), Some("env2.json")},
       fileSystem \in [Candidates -> FileStates] :
        Start(path, [PROXY_CONFIG |-> proxyConfig, REVERSE_PROXY_CONFIG |-> reverseProxyConfig],
              fileSystem, {})

NextLoad == LoadConfig

SpecLoad == InitLoad /\ [][NextLoad]_vars

\* loadConfig has returned or thrown
Loaded == phase # "start"

\* the environment variable loadConfig reads: PROXY_CONFIG when it is set,
\* else REVERSE_PROXY_CONFIG
EffectiveEnv == IF env.PROXY_CONFIG # None THEN env.PROXY_CONFIG ELSE env.REVERSE_PROXY_CONFIG

\* the configuration loadConfig makes of the (empty) JSON object in file c
ConfigOf(c) == Some([FALLBACK_CONFIG EXCEPT !.configDir = DirName(c)])

\* the outcome of reading candidate c alone: its configuration, or an error
ReadOutcome(c, missing) ==
    IF ~files[c].exists THEN error = Some(missing) /\ config = None
    ELSE IF files[c].json = None THEN error = Some("json") /\ config = None
    ELSE error = None /\ config = ConfigOf(c)

\* C7: an explicit path wins over the environment, and the environment (first
\* PROXY_CONFIG, then REVERSE_PROXY_CONFIG) over the search list, which is
\* tried in order up to its first existing file.  With an explicit path nothing
\* else is consulted, and loadConfig fails when that file does not exist.
C7_SourcePrecedence ==
    Loaded =>
        IF PathGiven(configPath)
        THEN /\ consulted = <<Get(configPath)>>
             /\ ReadOutcome(Get(configPath), "not-found")
        ELSE IF PathGiven(EffectiveEnv)
        THEN /\ consulted[1] = Get(EffectiveEnv)
             /\ files[Get(EffectiveEnv)].exists =>
                    /\ consulted = <<Get(EffectiveEnv)>>
                    /\ ReadOutcome(Get(EffectiveEnv), "env-missing")
        ELSE /\ \E n \in 1..Len(SearchList) : consulted = SubSeq(SearchList, 1, n)
             /\ \A i \in 1..(Len(consulted) - 1) : ~files[consulted[i]].exists
             /\ LET last == consulted[Len(consulted)]
                IN  IF files[last].exists THEN ReadOutcome(last, "none")
                    ELSE Len(consulted) = Len(SearchList)

\* the explicit file is missing while the files of the environment and of the
\* search list exist: loadConfig failed having consulted the explicit path only
C7_Witness ==
    /\ Loaded
    /\ configPath = Some("cli.json")
    /\ ~files["cli.json"].exists
    /\ env.PROXY_CONFIG = Some("env.json")
    /\ files["env.json"] = JsonFile(EmptyRaw)
    /\ files["proxy.config.json"] = JsonFile(EmptyRaw)
    /\ consulted = <<"cli.json">>
    /\ phase = "failed"
    /\ error = Some("not-found")

\* no file of the search list exists
NoSearchFile == \A i \in 1..Len(SearchList) : ~files[SearchList[i]].exists

\* the built-in configuration: the single route localhost, no TLS, port 80
IsBuiltInDefault(cfg) ==
    /\ cfg.routes = (<<"localhost">> :> <<"http://127.0.0.1:3000">>)
    /\ cfg.tls = None
    /\ cfg.http.port = 80

\* C8 as stated: without an explicit path, when neither the file the
\* environment names nor a file of the search list exists, loadConfig returns
\* the built-in configuration.
C8_NoSourceYieldsDefault ==
    (/\ Loaded
     /\ ~PathGiven(configPath)
     /\ PathGiven(EffectiveEnv) => ~files[Get(EffectiveEnv)].exists
     /\ NoSearchFile)
    => /\ error = None
       /\ IsSome(config)
       /\ IsBuiltInDefault(Get(config))

\* C8 amended: without an explicit path and with no environment path (unset or
\* empty), when no file of the search list exists loadConfig returns the
\* built-in configuration; with an environment path whose file does not exist
\* loadConfig fails, whatever the search list holds.
C8_DefaultOnlyWithoutEnvPath ==
    (Loaded /\ ~PathGiven(configPath)) =>
        /\ (~PathGiven(EffectiveEnv) /\ NoSearchFile) =>
              /\ error = None
              /\ IsSome(config)
              /\ IsBuiltInDefault(Get(config))
              /\ Get(config).configDir = Cwd
        /\ (PathGiven(EffectiveEnv) /\ ~files[Get(EffectiveEnv)].exists) =>
              /\ error = Some("env-missing")
              /\ config = None

\* nothing is configured and nothing exists: the whole search list was tried
\* and the built-in configuration returned
C8_Witness ==
    /\ Loaded
    /\ configPath = None
    /\ env = NoEnv
    /\ NoSearchFile
    /\ consulted = SearchList
    /\ error = None
    /\ IsSome(config)
    /\ IsBuiltInDefault(Get(config))


\* ------------------------------------------- the tls section: drawn widely
RawTlsConfigs ==
    [enabled : {None, Some(TRUE), Some(FALSE)},
     certPath : {None, Some(<<>>), Some(<<" ">>), Some(<<"cert.pem">>),
                 Some(<<" ", "cert.pem", " ">>)},
     keyPath : {None, Some(<<" ">>), Some(<<"key.pem">>), Some(<<"/", "key.pem">>),
                Some(<<"~", "/", "key.pem">>)},
     caPath : {<<>>, << <<"ca.pem">> >>, << <<" ">>, <<"ca.pem">> >>},
     passphrase : {None, Some(<<"pw">>)},
     requestClientCert : {None, Some(TRUE)}]

\* the files the paths above resolve to from the directory of cli.json
RelativeTlsFiles ==
    {DirName("cli.json") \o <<"/", "cert.pem">>, DirName("cli.json") \o <<"/", "key.pem">>,
     DirName("cli.json") \o <<"/", "ca.pem">>}

AbsoluteTlsFiles == {<<"/", "key.pem">>, <<"/", "home", "/", "key.pem">>}

InitTls ==
    \E tls \in {None} \cup {Some(t) : t \in RawTlsConfigs}, missing \in SUBSET RelativeTlsFiles :
        Start(Some("cli.json"), NoEnv,
              OnlyFile("cli.json", JsonFile([EmptyRaw EXCEPT !.tls = tls])),
              (RelativeTlsFiles \ missing) \cup AbsoluteTlsFiles)

NextTls == LoadConfig \/ StartListeners

SpecTls == InitTls /\ [][NextTls]_vars

\* the tls section of the configuration file
RawTlsOfFile == Get(files["cli.json"].json).tls

\* the path is given and is not blank
PathPresent(o) == IsSome(o) /\ \E i \in 1..Len(Get(o)) : Get(o)[i] # " "

\* TLS is wanted: tls.enabled is true, or it is unset and both paths are present
TlsWanted ==
    /\ IsSome(RawTlsOfFile)
    /\ \/ Get(RawTlsOfFile).enabled = Some(TRUE)
       \/ /\ Get(RawTlsOfFile).enabled = None
          /\ PathPresent(Get(RawTlsOfFile).certPath)
          /\ PathPresent(Get(RawTlsOfFile).keyPath)

TlsPathsPresent ==
    /\ IsSome(RawTlsOfFile)
    /\ PathPresent(Get(RawTlsOfFile).certPath)
    /\ PathPresent(Get(RawTlsOfFile).keyPath)

C10_OmittedOrFalseSkipsTls ==
    (Loaded /\ (RawTlsOfFile = None \/ Get(RawTlsOfFile).enabled \in {None, Some(FALSE)})) =>
        /\ IsSome(config)
        /\ Get(config).tls = None
        /\ \A l \in listeners : l.scheme = "http"


\* ----------------------------------------- start-up: inputs drawn widely
Ports == {80, 443}

RawRedirects ==
    {None} \cup {Some([enabled |-> e, port |-> p, statusCode |-> None]) :
                    e \in {None, Some(TRUE), Some(FALSE)},
                    p \in {None} \cup {Some(n) : n \in Ports}}

RawHttps ==
    {None} \cup {Some(RawHttp(e, p, r)) :
                    e \in {None, Some(TRUE), Some(FALSE)},
                    p \in {None} \cup {Some(n) : n \in Ports},
                    r \in RawRedirects}

\* no tls section, TLS with both files named, TLS enabled without a key
StartupTls == {None, Some(RawTlsOn), Some([RawTlsOn EXCEPT !.keyPath = None])}

StartupFiles ==
    {AbsentFile, MalformedFile}
        \cup {JsonFile([EmptyRaw EXCEPT !.http = h, !.tls = t]) : h \in RawHttps, t \in StartupTls}

InitStartup ==
    \E file \in StartupFiles, onDisk \in {{}, CliTlsFiles}, inUse \in SUBSET Ports :
        StartOn(Some("cli.json"), NoEnv, OnlyFile("cli.json", file), onDisk, inUse)

NextStartup == LoadConfig \/ StartListeners \/ MainCatch

\* the event loop runs every continuation that is ready: the one of runProxy
\* once loadConfig has settled, and the catch of main
SpecStartup ==
    /\ InitStartup
    /\ [][NextStartup]_vars
    /\ WF_vars(StartListeners)
    /\ WF_vars(MainCatch)

\* the certificate and the key the tls section of cli.json names
NamedTlsFiles ==
    {DirName("cli.json") \o <<"/", "cert.pem">>, DirName("cli.json") \o <<"/", "key.pem">>}

\* resolving the configuration of cli.json fails: the file is missing or is not
\* JSON, TLS is wanted and a path is missing, or a named TLS file is not on disk
ResolutionFails ==
    \/ ~files["cli.json"].exists
    \/ files["cli.json"].json = None
    \/ TlsWanted /\ ~TlsPathsPresent
    \/ TlsWanted /\ TlsPathsPresent /\ ~(NamedTlsFiles \subseteq disk)

\* C11: when resolving the configuration fails, runProxy fails with that error
\* without a configuration, and no listener, primary or redirect, is ever bound.
C11_NoListenerWhenConfigFails ==
    ResolutionFails =>
        /\ listeners = {}
        /\ config = None
        /\ Loaded => /\ phase = "failed"
                     /\ error \in {Some("not-found"), Some("json"), Some("tls-paths"),
                                   Some("tls-file")}

\* the certificate is not on disk while every port is free: runProxy failed and
\* bound nothing
C11_Witness ==
    /\ Loaded
    /\ files["cli.json"].json # None
    /\ TlsWanted
    /\ TlsPathsPresent
    /\ disk = {}
    /\ busy = {}
    /\ error = Some("tls-file")
    /\ phase = "failed"
    /\ listeners = {}

\* the bound listeners of each kind
Bound(kind) == {l \in listeners : l.kind = kind}

\* runProxy has returned normally
Started == phase \in {"disabled", "listening"}

\* C12: after a successful runProxy nothing is bound when http.enabled is false;
\* otherwise the primary listener is bound on http.port, and the redirect
\* listener is bound (on http.redirect.port) exactly when http.redirect.enabled
\* is true, TLS is active and http.redirect.port differs from http.port.
C12_ListenersFollowConfig ==
    Started =>
        LET cfg == Get(config)
        IN  /\ error = None
            /\ ~cfg.http.enabled => phase = "disabled" /\ listeners = {}
            /\ cfg.http.enabled =>
                 /\ phase = "listening"
                 /\ Cardinality(Bound("primary")) = 1
                 /\ \A l \in Bound("primary") : l.port = cfg.http.port
                 /\ Bound("primary") \cup Bound("redirect") = listeners
                 /\ Cardinality(Bound("redirect")) <= 1
                 /\ \A l \in Bound("redirect") : l.port = cfg.http.redirect.port
                 /\ (Bound("redirect") # {}) <=>
                        /\ cfg.http.redirect.enabled
                        /\ cfg.tls # None
                        /\ cfg.http.redirect.port # cfg.http.port

\* the redirect is enabled and TLS is active, but the two ports are equal: only
\* the primary listener is bound
C12_Witness ==
    /\ phase = "listening"
    /\ Get(config).http.redirect.enabled
    /\ Get(config).tls # None
    /\ Get(config).http.redirect.port = Get(config).http.port
    /\ Cardinality(listeners) = 1

\* the configuration is loaded and asks for a listener on a port that cannot be
\* bound
PrimaryCannotBind ==
    /\ IsSome(config)
    /\ Get(config).http.enabled
    /\ Get(config).http.port \in busy

RedirectCannotBind ==
    /\ IsSome(config)
    /\ Get(config).http.enabled
    /\ Get(config).http.redirect.enabled
    /\ Get(config).tls # None
    /\ Get(config).http.redirect.port # Get(config).http.port
    /\ Get(config).http.redirect.port \in busy

\* C17: when the primary listener, or the redirect listener, cannot be bound,
\* runProxy never returns normally: it fails with the bind error, and main then
\* ends the process with exit status 1.
C17_BindFailureIsFatal ==
    /\ [](PrimaryCannotBind =>
            /\ ~Started
            /\ phase = "failed" => error = Some("bind-primary"))
    /\ []((RedirectCannotBind /\ ~PrimaryCannotBind) =>
            /\ ~Started
            /\ phase = "failed" => error = Some("bind-redirect"))
    /\ [](exitCode \in {None, Some(1)})
    /\ ((PrimaryCannotBind \/ RedirectCannotBind) ~> (phase = "failed" /\ exitCode = Some(1)))

\* the primary listener was bound, the redirect listener could not be, and the
\* process exited with status 1
C17_Witness ==
    /\ RedirectCannotBind
    /\ ~PrimaryCannotBind
    /\ phase = "failed"
    /\ error = Some("bind-redirect")
    /\ exitCode = Some(1)


\* ------------------------------------ the redirect listener: drawn widely
TlsPorts == {443, 8443}

RedirectStatusCodes == {None, Some(301), Some(308)}

RedirectConfigs ==
    {[EmptyRaw EXCEPT
        !.tls = Some(RawTlsOn),
        !.http = Some(RawHttp(None, Some(p),
                              Some([enabled |-> Some(TRUE), port |-> None, statusCode |-> c])))] :
        p \in TlsPorts, c \in RedirectStatusCodes}

\* new URL(req.url) of a request to the redirect listener: the port is the one
\* of the Host header, if it names one
RedirectRequests ==
    {[url |-> [hostname |-> h, port |-> p, pathname |-> path, search |-> q]] :
        h \in {<<"a">>, <<"localhost">>},
        p \in {None, Some(8080)},
        path \in {<<"/">>, <<"/", "foo">>},
        q \in {<<>>, <<"?q=1">>}}

InitRedirect ==
    \E raw \in RedirectConfigs :
        Start(Some("cli.json"), NoEnv, OnlyFile("cli.json", JsonFile(raw)), CliTlsFiles)

NextRedirect ==
    \/ LoadConfig
    \/ StartListeners
    \/ \E req \in RedirectRequests : RedirectFetch(req)

SpecRedirect == InitRedirect /\ [][NextRedirect]_vars

\* the status code the configuration file asks for: 307 when it names none
ConfiguredStatusCode ==
    Coalesce(Get(Get(Get(files["cli.json"].json).http).redirect).statusCode, 307)

\* the port of the bound primary listener
PrimaryPort == (CHOOSE l \in Bound("primary") : TRUE).port

\* C13: every request to the redirect listener is answered without a body, with
\* the configured status code and with Location "https://" + hostname of the
\* request + path + query, where ":" + primary port follows the hostname
\* exactly when the primary port is not 443.
C13_RedirectLocation ==
    \A i \in 1..Len(redirects) :
        LET url      == redirects[i].req.url
            response == redirects[i].response
            port     == IF PrimaryPort = 443 THEN <<>> ELSE <<":", ToString(PrimaryPort)>>
        IN  /\ response.body = None
            /\ response.status = ConfiguredStatusCode
            /\ response.headers.location =
                  <<"https://">> \o url.hostname \o port \o url.pathname \o url.search

\* with the primary listener on 8443, http://a:8080/foo?q=1 was redirected to
\* https://a:8443/foo?q=1 with the configured 308
C13_Witness ==
    \E i \in 1..Len(redirects) :
        /\ PrimaryPort = 8443
        /\ redirects[i].req.url =
              [hostname |-> <<"a">>, port |-> Some(8080), pathname |-> <<"/", "foo">>,
               search |-> <<"?q=1">>]
        /\ redirects[i].response =
              [status |-> 308, body |-> None,
               headers |-> [location |-> <<"https://", "a", ":", "8443", "/", "foo", "?q=1">>]]


\* --------------------------------- the outbound request: inputs drawn widely
ForwardConfigs ==
    {[EmptyRaw EXCEPT !.routes = << <<<<"a">>, U>> >>, !.tls = t, !.requireExplicitHost = e] :
        t \in {None, Some(RawTlsOn)}, e \in {None, Some(TRUE), Some(FALSE)}}

ForwardRequests ==
    {[host |-> h, url |-> RootUrl, forwarded |-> [host |-> fh, for |-> f, proto |-> fp],
      clientIP |-> ip, method |-> m, body |-> b] :
        ip \in {None, Some(<<"5.6.7.8">>)},
        h \in {None, Some(<<"a">>), Some(<<"A", ":", "8080">>), Some(<<"b">>)},
        m \in {"GET", "HEAD", "POST", "DELETE"},
        b \in {None, Some(<<"payload">>)},
        f \in {None, Some(<<>>), Some(<<"1.2.3.4">>)},
        fh \in {None, Some(<<"evil">>)},
        fp \in {None, Some(<<"https">>)}}

InitForward ==
    \E raw \in ForwardConfigs :
        Start(Some("cli.json"), NoEnv, OnlyFile("cli.json", JsonFile(raw)), CliTlsFiles)

NextForward ==
    \/ LoadConfig
    \/ StartListeners
    \/ \E req \in ForwardRequests : ProxyFetch(req, 1)
    \/ FetchSettles

SpecForward == InitForward /\ [][NextForward]_vars

\* the scheme of the bound primary listener, which accepted the requests
PrimaryScheme == (CHOOSE l \in Bound("primary") : TRUE).scheme

\* a string that is given and is not empty
Given(o) == IsSome(o) /\ Get(o) # <<>>

\* C14: the outbound request of a forwarded request has no Host header; its
\* X-Forwarded-For is the inbound X-Forwarded-For, if any, then ", " and the
\* client IP; its X-Forwarded-Host is the inbound Host header and its
\* X-Forwarded-Proto the scheme of the inbound connection, "http" or "https",
\* whatever X-Forwarded-Host and X-Forwarded-Proto the client sent.
C14_ForwardedHeaders ==
    \A i \in 1..Len(handlers) :
        LET h == handlers[i]
        IN  IsSome(h.init) =>
            LET headers == Get(h.init).headers
                inbound == h.req.forwarded.for
                ip      == h.req.clientIP
            IN  /\ headers.host = None
                /\ headers.xForwardedFor =
                      Some(IF Given(inbound) /\ Given(ip)
                           THEN Get(inbound) \o <<", ">> \o Get(ip)
                           ELSE IF Given(ip) THEN Get(ip)
                           ELSE IF Given(inbound) THEN Get(inbound)
                           ELSE <<>>)
                /\ headers.xForwardedHost = h.req.host
                /\ headers.xForwardedProto = Some(<<PrimaryScheme>>)
                /\ PrimaryScheme \in {"http", "https"}

\* a client at 5.6.7.8 sent X-Forwarded-For: 1.2.3.4, X-Forwarded-Host: evil and
\* X-Forwarded-Proto: https over plain HTTP
C14_Witness ==
    \E i \in 1..Len(handlers) :
        /\ handlers[i].req.forwarded =
              [for |-> Some(<<"1.2.3.4">>), host |-> Some(<<"evil">>), proto |-> Some(<<"https">>)]
        /\ handlers[i].req.host = Some(<<"A", ":", "8080">>)
        /\ IsSome(handlers[i].init)
        /\ Get(handlers[i].init).headers =
              [host |-> None,
               xForwardedFor |-> Some(<<"1.2.3.4", ", ", "5.6.7.8">>),
               xForwardedHost |-> Some(<<"A", ":", "8080">>),
               xForwardedProto |-> Some(<<"http">>)]

\* C15: the outbound request of a GET or a HEAD has no body, also when the
\* inbound request had one; for every other method the outbound body is the
\* inbound body.
C15_BodyOnlyForOtherMethods ==
    \A i \in 1..Len(handlers) :
        LET h == handlers[i]
        IN  IsSome(h.init) =>
              /\ Get(h.init).method = h.req.method
              /\ h.req.method \in {"GET", "HEAD"} => Get(h.init).body = None
              /\ h.req.method \notin {"GET", "HEAD"} => Get(h.init).body = h.req.body

\* a GET that came with a body was forwarded without it
C15_Witness ==
    \E i \in 1..Len(handlers) :
        /\ handlers[i].req.method = "GET"
        /\ handlers[i].req.body = Some(<<"payload">>)
        /\ handlers[i].fetch = "resolved"
        /\ Get(handlers[i].init).body = None

\* the loaded configuration with requireExplicitHost negated
OtherExplicitHost == [Get(config) EXCEPT !.requireExplicitHost = ~@]

\* C16: a request whose host matches no route is answered 404 whatever
\* requireExplicitHost is, and every request is handled as it would be under
\* the configuration that differs in requireExplicitHost only: the same response,
\* or the same outbound call.
C16_RequireExplicitHostChangesNoResponse ==
    \A i \in 1..Len(handlers) :
        LET h     == handlers[i]
            other == ProxyFetchStart(OtherExplicitHost, h.req)
        IN  /\ (~ClientRejected(h) /\ HostUnrouted(h)) => h.response = Some(NotFound)
            /\ h.fetch = "none" => h = other
            /\ h.fetch # "none" =>
                 /\ other.st = "awaiting"
                 /\ other.outbound = h.outbound
                 /\ other.init = h.init

\* requireExplicitHost is false and a request for the unknown host b got 404
C16_Witness ==
    \E i \in 1..Len(handlers) :
        /\ ~Get(config).requireExplicitHost
        /\ handlers[i].req.host = Some(<<"b">>)
        /\ handlers[i].response = Some(NotFound)


\* ------------------------------------ requests in flight: slow upstreams
LiveRequests ==
    {PlainRequest(ip, Some(h)) : ip \in {None, Some(<<"1">>)}, h \in {<<"a">>, <<"b">>}}

InitLive ==
    Start(Some("cli.json"), NoEnv,
          OnlyFile("cli.json", JsonFile([EmptyRaw EXCEPT !.routes = << <<<<"a">>, U>> >>])), {})

NextLive ==
    \/ LoadConfig
    \/ StartListeners
    \/ \E req \in LiveRequests : ProxyFetch(req, MaxRequests)
    \/ FetchSettles
    \/ ClientCloses

\* The event loop runs the continuation of runProxy.  When a request arrives,
\* when a client closes and when (and whether) an upstream answers is up to the
\* network: proxyFetch sets no timer and hands fetch no signal (lines 343-354),
\* so nothing in the program makes the awaited call settle.
SpecLive ==
    /\ InitLive
    /\ [][NextLive]_vars
    /\ WF_vars(StartListeners)

\* C18: every request the handler accepts is eventually answered: while the
\* upstream is slow or silent the handler does not wait forever.
C18_EveryRequestIsEventuallyAnswered ==
    \A i \in 1..MaxRequests :
        [](Len(handlers) >= i => <>(Len(handlers) >= i /\ handlers[i].st = "responded"))

\* C19: when the client's connection closes while the handler awaits the
\* outbound call, that call is eventually no longer in flight.
C19_ClosedInboundAbortsOutbound ==
    \A i \in 1..MaxRequests :
        []((Len(handlers) >= i /\ handlers[i].inbound = "closed")
              => <>(Len(handlers) >= i /\ handlers[i].fetch # "pending"))

\* what proxyFetch decided for a request before it awaited anything
Decision(h) == <<h.fetch = "none", h.target, h.outbound, h.init>>

\* the upstream gave the same answer to both, or both are still awaited
SameAnswer(h1, h2) ==
    /\ h1.fetch = h2.fetch
    /\ h1.fetch = "resolved" => Get(h1.response).status = Get(h2.response).status

\* C20: after loadConfig has returned the configuration never changes; a step
\* of one request changes no other request; and two requests that are equal
\* are handled equally (the same decision, and with the same answer of the
\* upstream the same response), whatever else is in flight or done.
C20_RequestsAreIndependent ==
    /\ [][IsSome(config) => config' = config]_vars
    /\ [][\A i \in 1..Len(handlers) :
             handlers'[i] # handlers[i] =>
                 \A j \in 1..Len(handlers) : j # i => handlers'[j] = handlers[j]]_vars
    /\ [](\A i, j \in 1..Len(handlers) :
             handlers[i].req = handlers[j].req =>
                 /\ Decision(handlers[i]) = Decision(handlers[j])
                 /\ SameAnswer(handlers[i], handlers[j]) => handlers[i] = handlers[j])

\* a request arrived and was answered by its upstream while an equal request
\* was still in flight
C20_Witness ==
    /\ Len(handlers) = 2
    /\ handlers[1].req = handlers[2].req
    /\ handlers[1].fetch = "pending"
    /\ handlers[2].fetch = "resolved"
    /\ handlers[2].response = Some([from |-> "upstream", status |-> 200])


\* C21: start-up is all or nothing: whenever runProxy has failed, for whatever
\* reason, no listener it started is bound; in particular not the primary
\* listener when the redirect listener could not be bound after it.
C21_FailedStartLeavesNoListener ==
    phase = "failed" => listeners = {}

=============================================================================
